---- MODULE Spec2Model ----
(***************************************************************************)
(* Model of .github/scripts/verify_authors.py: the two check functions     *)
(* (check_github_handle, check_url) and main(), with its three passes and  *)
(* the final report.  Python strings are TLA+ strings, a dict is a         *)
(* sequence of (key, value) pairs in insertion order, an Optional is a     *)
(* sequence of length 0 (None) or 1, and the network is an input: every    *)
(* requests.head call draws its response from a small set.                 *)
(***************************************************************************)
EXTENDS Integers, Sequences, FiniteSets, TLC

VARIABLES authors, registry, failed_handles, failed_urls, missing_authors,
          registry_authors, sorted_authors, pc, i, requests, stdout, exit_code,
          call, ret

\* authors, registry   the two files as loaded (lines 48-52)
\* failed_handles, failed_urls, missing_authors   the three lists (lines 54-56)
\* registry_authors   the set of line 100
\* sorted_authors     the list sorted(registry_authors) the loop of line 108 runs over
\* pc, i              where main() is, and the position of the running loop
\* requests           the targets of the requests.head calls made so far
\* stdout             what main() printed so far, one record per print
\* exit_code          None while the process runs, then its exit status
\* call, ret          a check function called on its own: its argument with the
\*                    answer the network holds ready, and the tuple returned
vars == <<authors, registry, failed_handles, failed_urls, missing_authors,
          registry_authors, sorted_authors, pc, i, requests, stdout, exit_code,
          call, ret>>

(***************************************************************************)
(* Bounds of the inputs.                                                   *)
(***************************************************************************)
\* website/avatar fields in one authors file
MaxUrlFields == 2
\* entries of the registry file
MaxEntries == 2
\* handles referenced by the whole registry file
MaxRefs == 2

(***************************************************************************)
(* Python values.                                                          *)
(***************************************************************************)
None == << >>
Some(s) == << s >>
\* bool(x) of an Optional[str]
Truthy(x) == x # None /\ Len(x[1]) > 0

\* `sub in s` on str
Contains(sub, s) ==
    \E k \in 1..(Len(s) - Len(sub) + 1) : SubSeq(s, k, k + Len(sub) - 1) = sub

\* The characters that occur in handles, in code point order.
Alphabet == "-0123456789ABCDEFGHIJKLMNOPQRSTUVWXYZ_abcdefghijklmnopqrstuvwxyz"
Ord(c) == CHOOSE k \in 1..Len(Alphabet) : SubSeq(Alphabet, k, k) = c
CharAt(s, k) == SubSeq(s, k, k)

\* a < b on str: the first differing code point decides, a proper prefix is less
StrLess(a, b) ==
    \/ \E k \in 1..Len(a) :
          /\ k <= Len(b)
          /\ SubSeq(a, 1, k - 1) = SubSeq(b, 1, k - 1)
          /\ Ord(CharAt(a, k)) < Ord(CharAt(b, k))
    \/ Len(a) < Len(b) /\ SubSeq(b, 1, Len(a)) = a

RECURSIVE sorted(_)
sorted(S) ==
    IF S = {} THEN << >>
    ELSE LET m == CHOOSE x \in S : \A y \in S \ {x} : StrLess(x, y)
         IN  << m >> \o sorted(S \ {m})

\* dict operations on a sequence of [key, value] pairs
keys(d) == [k \in 1..Len(d) |-> d[k].key]
InDict(x, d) == \E k \in 1..Len(d) : d[k].key = x
HasField(details, f) == f \in DOMAIN details

(***************************************************************************)
(* HTTP responses: a final status code, or a requests.RequestException      *)
(* with its text.                                                          *)
(***************************************************************************)
NotFound == 404
ErrorFloor == 400
Status(c) == [kind |-> "status", status_code |-> c]
Raised(msg) == [kind |-> "RequestException", msg |-> msg]

ProfileUrl(username) == "https://github.com/" \o username

SkipMarker == "x.com"
SkippedReason == "skipped (x.com)"

\* fault: `>` for `>=` in the test of line 21
check_github_handle_above_floor(username, response) ==
    LET sent == << ProfileUrl(username) >>
    IN  IF response.kind = "RequestException"
        THEN [success |-> FALSE, error |-> Some(response.msg), sent |-> sent]
        ELSE IF response.status_code = NotFound
        THEN [success |-> FALSE, error |-> Some("GitHub profile not found"), sent |-> sent]
        ELSE IF response.status_code > ErrorFloor
        THEN [success |-> FALSE,
              error |-> Some("HTTP " \o ToString(response.status_code)), sent |-> sent]
        ELSE [success |-> TRUE, error |-> None, sent |-> sent]

\* fault: a request that raised is sent once more before giving up
check_github_handle_retry(username, response) ==
    LET sent == << ProfileUrl(username) >>
    IN  IF response.kind = "RequestException"
        THEN [success |-> FALSE, error |-> Some(response.msg), sent |-> sent \o sent]
        ELSE IF response.status_code = NotFound
        THEN [success |-> FALSE, error |-> Some("GitHub profile not found"), sent |-> sent]
        ELSE IF response.status_code >= ErrorFloor
        THEN [success |-> FALSE,
              error |-> Some("HTTP " \o ToString(response.status_code)), sent |-> sent]
        ELSE [success |-> TRUE, error |-> None, sent |-> sent]

\* check_github_handle: what it returns and the requests it issues
check_github_handle(username, response) ==
    LET sent == << ProfileUrl(username) >>
    IN  IF response.kind = "RequestException"
        THEN [success |-> FALSE, error |-> Some(response.msg), sent |-> sent]
        ELSE IF response.status_code = NotFound
        THEN [success |-> FALSE, error |-> Some("GitHub profile not found"), sent |-> sent]
        ELSE IF response.status_code >= ErrorFloor
        THEN [success |-> FALSE,
              error |-> Some("HTTP " \o ToString(response.status_code)), sent |-> sent]
        ELSE [success |-> TRUE, error |-> None, sent |-> sent]

\* fault: the x.com test of line 31 left out
check_url_no_skip(url, response) ==
    LET sent == << url >>
    IN  IF response.kind = "RequestException"
        THEN [success |-> FALSE, error |-> Some(response.msg), sent |-> sent]
        ELSE IF response.status_code >= ErrorFloor
        THEN [success |-> FALSE,
              error |-> Some("HTTP " \o ToString(response.status_code)), sent |-> sent]
        ELSE [success |-> TRUE, error |-> None, sent |-> sent]

\* check_url: what it returns and the requests it issues
check_url(url, response) ==
    IF Contains(SkipMarker, url)
    THEN [success |-> TRUE, error |-> Some(SkippedReason), sent |-> << >>]
    ELSE LET sent == << url >>
         IN  IF response.kind = "RequestException"
             THEN [success |-> FALSE, error |-> Some(response.msg), sent |-> sent]
             ELSE IF response.status_code >= ErrorFloor
             THEN [success |-> FALSE,
                   error |-> Some("HTTP " \o ToString(response.status_code)), sent |-> sent]
             ELSE [success |-> TRUE, error |-> None, sent |-> sent]

(***************************************************************************)
(* Inputs of main(): the two files and the answers of the network.         *)
(***************************************************************************)
Handles == {"bob", "alice"}
RegistryHandles == {"bob", "Zed"}
AuthorUrls == {"https://x.com/eve", "https://dead.example/x"}
Responses == {Status(200), Status(404), Status(500), Raised("Read timed out")}

DetailsSet ==
    LET base == [name |-> "Author"]
    IN  {base}
        \cup {base @@ [website |-> u] : u \in AuthorUrls}
        \cup {base @@ [avatar |-> u] : u \in AuthorUrls}
        \cup {base @@ [website |-> u, avatar |-> v] : u \in AuthorUrls, v \in AuthorUrls}

UrlFieldCount(details) == Cardinality(DOMAIN details \cap {"website", "avatar"})

RECURSIVE SumUrlFields(_)
SumUrlFields(d) ==
    IF d = << >> THEN 0 ELSE UrlFieldCount(Head(d).value) + SumUrlFields(Tail(d))

\* authors files: distinct keys in any order, at most maxUrl website/avatar fields
AuthorsFilesUpTo(maxUrl) ==
    {d \in UNION {[1..n -> [key : Handles, value : DetailsSet]] :
                     n \in 0..Cardinality(Handles)} :
        /\ \A a, b \in 1..Len(d) : a # b => d[a].key # d[b].key
        /\ SumUrlFields(d) <= maxUrl}

RefLists(maxRefs) == UNION {[1..n -> RegistryHandles] : n \in 0..maxRefs}
Entries(maxRefs) ==
    {[title |-> "Notebook"]}
    \cup {[title |-> "Notebook", authors |-> r] : r \in RefLists(maxRefs)}

RefCount(entry) == IF "authors" \in DOMAIN entry THEN Len(entry.authors) ELSE 0

RECURSIVE SumRefs(_)
SumRefs(r) == IF r = << >> THEN 0 ELSE RefCount(Head(r)) + SumRefs(Tail(r))

\* registry files: at most maxEntries entries referencing at most maxRefs handles
RegistryFilesUpTo(maxEntries, maxRefs) ==
    {r \in UNION {[1..n -> Entries(maxRefs)] : n \in 0..maxEntries} :
        SumRefs(r) <= maxRefs}

\* The pairs of files main() is run on: every authors file within the bound
\* with a registry of at most one entry and one reference, and every registry
\* within the bounds with an authors file that has no URL field.
InputFiles ==
    (AuthorsFilesUpTo(MaxUrlFields) \X RegistryFilesUpTo(1, 1))
    \cup (AuthorsFilesUpTo(0) \X RegistryFilesUpTo(MaxEntries, MaxRefs))

(***************************************************************************)
(* main()                                                                   *)
(***************************************************************************)
Init ==
    /\ \E files \in InputFiles : authors = files[1] /\ registry = files[2]
    /\ failed_handles = << >>
    /\ failed_urls = << >>
    /\ missing_authors = << >>
    /\ registry_authors = {}
    /\ sorted_authors = << >>
    /\ pc = "step1"
    /\ i = 1
    /\ requests = << >>
    /\ stdout = << >>
    /\ exit_code = None
    /\ call = None
    /\ ret = None

\* fault: a failed handle check ends the run instead of being recorded
Step1Iter_abort ==
    /\ pc = "step1"
    /\ i <= Len(authors)
    /\ \E response \in Responses :
          LET username == keys(authors)[i]
              r == check_github_handle(username, response)
          IN  /\ requests' = requests \o r.sent
              /\ failed_handles' = failed_handles
              /\ stdout' = Append(stdout, [line |-> "handle", username |-> username,
                                           success |-> r.success, error |-> r.error])
              /\ pc' = IF r.success THEN pc ELSE "crashed"
    /\ i' = i + 1
    /\ UNCHANGED <<authors, registry, failed_urls, missing_authors, registry_authors,
                   sorted_authors, exit_code, call, ret>>

\* fault: a failed handle is appended twice
Step1Iter_twice ==
    /\ pc = "step1"
    /\ i <= Len(authors)
    /\ \E response \in Responses :
          LET username == keys(authors)[i]
              r == check_github_handle(username, response)
              entry == username \o " (" \o r.error[1] \o ")"
          IN  /\ requests' = requests \o r.sent
              /\ failed_handles' =
                    IF ~r.success
                    THEN failed_handles \o << entry, entry >>
                    ELSE failed_handles
              /\ stdout' = Append(stdout, [line |-> "handle", username |-> username,
                                           success |-> r.success, error |-> r.error])
    /\ i' = i + 1
    /\ UNCHANGED <<authors, registry, failed_urls, missing_authors, registry_authors,
                   sorted_authors, pc, exit_code, call, ret>>

\* lines 60-67: one iteration of the loop over authors.keys()
Step1Iter ==
    /\ pc = "step1"
    /\ i <= Len(authors)
    /\ \E response \in Responses :
          LET username == keys(authors)[i]
              r == check_github_handle(username, response)
          IN  /\ requests' = requests \o r.sent
              /\ failed_handles' =
                    IF ~r.success
                    THEN Append(failed_handles, username \o " (" \o r.error[1] \o ")")
                    ELSE failed_handles
              /\ stdout' = Append(stdout, [line |-> "handle", username |-> username,
                                           success |-> r.success, error |-> r.error])
    /\ i' = i + 1
    /\ UNCHANGED <<authors, registry, failed_urls, missing_authors, registry_authors,
                   sorted_authors, pc, exit_code, call, ret>>

\* lines 69-70, entered when the loop over authors.keys() is exhausted
Step1Done ==
    /\ pc = "step1"
    /\ i > Len(authors)
    /\ pc' = "step2"
    /\ i' = 1
    /\ UNCHANGED <<authors, registry, failed_handles, failed_urls, missing_authors,
                   registry_authors, sorted_authors, requests, stdout, exit_code, call, ret>>

\* fault: `if not success or error` for `if not success` in lines 78 and 90
CheckField_skipped_fails(username, details, field, response) ==
    IF HasField(details, field)
    THEN LET url == details[field]
             r == check_url(url, response)
         IN  [failed |-> IF ~r.success \/ Truthy(r.error)
                         THEN << username \o "." \o field \o ": " \o url
                                   \o " (" \o r.error[1] \o ")" >>
                         ELSE << >>,
              lines |-> << [line |-> field, username |-> username, url |-> url,
                            success |-> r.success, error |-> r.error,
                            mark |-> IF ~r.success THEN "failed"
                                     ELSE IF Truthy(r.error) THEN "skipped" ELSE "ok"] >>,
              sent |-> r.sent]
    ELSE [failed |-> << >>, lines |-> << >>, sent |-> << >>]

\* lines 75-84 and 87-96: the check of one field of one author
CheckField(username, details, field, response) ==
    IF HasField(details, field)
    THEN LET url == details[field]
             r == check_url(url, response)
         IN  [failed |-> IF ~r.success
                         THEN << username \o "." \o field \o ": " \o url
                                   \o " (" \o r.error[1] \o ")" >>
                         ELSE << >>,
              lines |-> << [line |-> field, username |-> username, url |-> url,
                            success |-> r.success, error |-> r.error,
                            mark |-> IF ~r.success THEN "failed"
                                     ELSE IF Truthy(r.error) THEN "skipped" ELSE "ok"] >>,
              sent |-> r.sent]
    ELSE [failed |-> << >>, lines |-> << >>, sent |-> << >>]

\* fault: the avatar block of lines 87-96 placed before the website block
Step2Iter_avatar_first ==
    /\ pc = "step2"
    /\ i <= Len(authors)
    /\ \E rw \in Responses, ra \in Responses :
          LET username == authors[i].key
              details == authors[i].value
              w == CheckField(username, details, "website", rw)
              a == CheckField(username, details, "avatar", ra)
          IN  /\ requests' = requests \o a.sent \o w.sent
              /\ failed_urls' = failed_urls \o a.failed \o w.failed
              /\ stdout' = stdout \o << [line |-> "urls", username |-> username] >>
                                  \o a.lines \o w.lines
    /\ i' = i + 1
    /\ UNCHANGED <<authors, registry, failed_handles, missing_authors, registry_authors,
                   sorted_authors, pc, exit_code, call, ret>>

\* lines 71-96: one iteration of the loop over authors.items()
Step2Iter ==
    /\ pc = "step2"
    /\ i <= Len(authors)
    /\ \E rw \in Responses, ra \in Responses :
          LET username == authors[i].key
              details == authors[i].value
              w == CheckField(username, details, "website", rw)
              a == CheckField(username, details, "avatar", ra)
          IN  /\ requests' = requests \o w.sent \o a.sent
              /\ failed_urls' = failed_urls \o w.failed \o a.failed
              /\ stdout' = stdout \o << [line |-> "urls", username |-> username] >>
                                  \o w.lines \o a.lines
    /\ i' = i + 1
    /\ UNCHANGED <<authors, registry, failed_handles, missing_authors, registry_authors,
                   sorted_authors, pc, exit_code, call, ret>>

\* fault: only the first registry entry is read
CollectRegistryAuthors_first_entry(reg) ==
    IF Len(reg) > 0 /\ "authors" \in DOMAIN reg[1]
    THEN {reg[1].authors[k] : k \in 1..Len(reg[1].authors)}
    ELSE {}

\* lines 100-104: the set built from the registry entries
CollectRegistryAuthors(reg) ==
    UNION {{reg[e].authors[k] : k \in 1..Len(reg[e].authors)} :
             e \in {x \in 1..Len(reg) : "authors" \in DOMAIN reg[x]}}

\* lines 98-108, entered when the loop over authors.items() is exhausted: the
\* set is collected, its size printed and the list the last loop runs over built
Step3Collect ==
    /\ pc = "step2"
    /\ i > Len(authors)
    /\ registry_authors' = CollectRegistryAuthors(registry)
    /\ sorted_authors' = sorted(registry_authors')
    /\ stdout' = Append(stdout, [line |-> "found",
                                 count |-> Cardinality(registry_authors')])
    /\ pc' = "step3"
    /\ i' = 1
    /\ UNCHANGED <<authors, registry, failed_handles, failed_urls, missing_authors,
                   requests, exit_code, call, ret>>

\* lines 108-113: one iteration of the loop over sorted(registry_authors)
Step3Iter ==
    /\ pc = "step3"
    /\ i <= Len(sorted_authors)
    /\ LET author == sorted_authors[i]
           defined == InDict(author, authors)
       IN  /\ missing_authors' =
                 IF ~defined THEN Append(missing_authors, author) ELSE missing_authors
           /\ stdout' = Append(stdout, [line |-> "registry", author |-> author,
                                        success |-> defined])
    /\ i' = i + 1
    /\ UNCHANGED <<authors, registry, failed_handles, failed_urls, registry_authors,
                   sorted_authors, pc, requests, exit_code, call, ret>>

\* fault: the test of missing_authors (lines 130-134) left out
HasFailures_without_missing(fh, fu, ma) == fh # << >> \/ fu # << >>

\* lines 116-134: has_failures after the three tests
HasFailures(fh, fu, ma) == fh # << >> \/ fu # << >> \/ ma # << >>

\* lines 118-134: the failure sections printed
ReportLines(fh, fu, ma) ==
    (IF fh # << >> THEN << [line |-> "report_handles", items |-> fh] >> ELSE << >>)
    \o (IF fu # << >> THEN << [line |-> "report_urls", items |-> fu] >> ELSE << >>)
    \o (IF ma # << >> THEN << [line |-> "report_missing", items |-> ma] >> ELSE << >>)

\* lines 115-139, entered when the loop over sorted(registry_authors) is
\* exhausted, and the exit of the process (sys.exit(1), or main() returning)
Report ==
    /\ pc = "step3"
    /\ i > Len(sorted_authors)
    /\ LET has_failures == HasFailures(failed_handles, failed_urls, missing_authors)
       IN  /\ stdout' = stdout
                  \o ReportLines(failed_handles, failed_urls, missing_authors)
                  \o (IF has_failures THEN << >> ELSE << [line |-> "success"] >>)
           /\ exit_code' = IF has_failures THEN Some(1) ELSE Some(0)
    /\ pc' = "done"
    /\ UNCHANGED <<authors, registry, failed_handles, failed_urls, missing_authors,
                   registry_authors, sorted_authors, i, requests, call, ret>>

Next ==
    \/ Step1Iter
    \/ Step1Done
    \/ Step2Iter
    \/ Step3Collect
    \/ Step3Iter
    \/ Report

Spec == Init /\ [][Next]_vars

\* main() runs to its end: no step waits on anything but the bounded network calls
FairSpec == Spec /\ WF_vars(Next)

(***************************************************************************)
(* The two check functions called on their own: the argument and the       *)
(* answer the network would give are drawn first, then the function runs.  *)
(***************************************************************************)
FnHandles == {"alice", "bob", "Zed"}
FnUrls == {"https://x.com/eve", "http://x.com", "https://good.example",
           "https://dead.example/x", "https://netflix.com/title",
           "https://good.example/?via=x.com", "https://good.example/x.com"}
StatusCodes == {200, 201, 204, 301, 304, 399, 400, 401, 403, 404, 405, 410, 429,
                499, 500, 502, 503, 599}
FnResponses ==
    {Status(c) : c \in StatusCodes}
    \cup {Raised("Read timed out"), Raised("Name or service not known")}

FnInit ==
    /\ authors = << >>
    /\ registry = << >>
    /\ failed_handles = << >>
    /\ failed_urls = << >>
    /\ missing_authors = << >>
    /\ registry_authors = {}
    /\ sorted_authors = << >>
    /\ pc = "fn"
    /\ i = 1
    /\ requests = << >>
    /\ stdout = << >>
    /\ exit_code = None
    /\ \E response \in FnResponses :
          \/ \E username \in FnHandles :
                call = [fn |-> "check_github_handle", arg |-> username,
                        response |-> response]
          \/ \E url \in FnUrls :
                call = [fn |-> "check_url", arg |-> url, response |-> response]
    /\ ret = None

\* lines 15-25
CallCheckGithubHandle ==
    /\ pc = "fn"
    /\ call.fn = "check_github_handle"
    /\ LET r == check_github_handle(call.arg, call.response)
       IN  /\ ret' = Some([success |-> r.success, error |-> r.error])
           /\ requests' = requests \o r.sent
    /\ pc' = "returned"
    /\ UNCHANGED <<authors, registry, failed_handles, failed_urls, missing_authors,
                   registry_authors, sorted_authors, i, stdout, exit_code, call>>

\* lines 28-40
CallCheckUrl ==
    /\ pc = "fn"
    /\ call.fn = "check_url"
    /\ LET r == check_url(call.arg, call.response)
       IN  /\ ret' = Some([success |-> r.success, error |-> r.error])
           /\ requests' = requests \o r.sent
    /\ pc' = "returned"
    /\ UNCHANGED <<authors, registry, failed_handles, failed_urls, missing_authors,
                   registry_authors, sorted_authors, i, stdout, exit_code, call>>

FnNext ==
    \/ CallCheckGithubHandle
    \/ CallCheckUrl

FnSpec == FnInit /\ [][FnNext]_vars

(***************************************************************************)
(* What the properties below read off the state.                           *)
(***************************************************************************)
Range(q) == {q[k] : k \in 1..Len(q)}
AfterPass2 == pc \in {"step3", "done"}
AfterPass3 == pc = "done" \/ (pc = "step3" /\ i > Len(sorted_authors))

\* The host of a URL: the text between "://" and the next "/", "?" or "#".
Host(url) ==
    LET start == 3 + CHOOSE k \in 1..(Len(url) - 2) :
                       /\ SubSeq(url, k, k + 2) = "://"
                       /\ \A j \in 1..(k - 1) : SubSeq(url, j, j + 2) # "://"
        stops == {k \in start..Len(url) : SubSeq(url, k, k) \in {"/", "?", "#"}}
        stop == IF stops = {} THEN Len(url) + 1
                ELSE CHOOSE k \in stops : \A j \in stops : k <= j
    IN  SubSeq(url, start, stop - 1)

\* The handles the registry file references, and the keys of the authors file.
Referenced ==
    {h \in RegistryHandles :
        \E e \in 1..Len(registry) :
            /\ "authors" \in DOMAIN registry[e]
            /\ \E k \in 1..Len(registry[e].authors) : registry[e].authors[k] = h}
Keys == {authors[k].key : k \in 1..Len(authors)}

\* The lines printed so far, by kind.
HandleLines == SelectSeq(stdout, LAMBDA l : l.line = "handle")
UrlLines == SelectSeq(stdout, LAMBDA l : l.line \in {"website", "avatar"})
AuthorLines == SelectSeq(stdout, LAMBDA l : l.line = "urls")
RegistryLines == SelectSeq(stdout, LAMBDA l : l.line = "registry")
FailedHandleLines == SelectSeq(HandleLines, LAMBDA l : ~l.success)
FailedUrlLines == SelectSeq(UrlLines, LAMBDA l : ~l.success)
FailedRegistryLines == SelectSeq(RegistryLines, LAMBDA l : ~l.success)
SkippedUrlLines == SelectSeq(UrlLines, LAMBDA l : l.success /\ Truthy(l.error))

KeyIndex(username) == CHOOSE k \in 1..Len(authors) : authors[k].key = username
Pass(l) ==
    IF l.line = "handle" THEN 1
    ELSE IF l.line \in {"urls", "website", "avatar"} THEN 2
    ELSE IF l.line \in {"found", "registry"} THEN 3
    ELSE 4

\* C1: when main() has reported, the exit status is 1 exactly when one of the
\* three failure lists is non-empty, and otherwise 0 with the success message
\* printed; before the report the process has not exited.
C1_ExitStatus ==
    LET clean == Len(failed_handles) = 0 /\ Len(failed_urls) = 0
                   /\ Len(missing_authors) = 0
        said_success == \E k \in 1..Len(stdout) : stdout[k].line = "success"
    IN  /\ pc = "done" => /\ exit_code = IF clean THEN << 0 >> ELSE << 1 >>
                          /\ said_success <=> clean
        /\ pc # "done" => exit_code = << >>

\* C1 witness: only the missing-authors list is non-empty, a URL check was
\* skipped, and the process exited with status 1.
C1_Witness ==
    /\ pc = "done"
    /\ exit_code = << 1 >>
    /\ failed_handles = << >>
    /\ failed_urls = << >>
    /\ missing_authors # << >>
    /\ Len(SkippedUrlLines) > 0

\* C2: at the end of pass 3 the missing-authors list holds exactly the handles
\* referenced by the registry that are no key of the authors file, each once,
\* in ascending lexical order.
C2_MissingAuthors ==
    AfterPass3 =>
        /\ Range(missing_authors) = Referenced \ Keys
        /\ \A k \in 1..(Len(missing_authors) - 1) :
              StrLess(missing_authors[k], missing_authors[k + 1])

\* C2 witness: an entry without `authors`, then an entry referencing an
\* undefined handle twice and another one out of order.
C2_Witness ==
    /\ pc = "done"
    /\ Len(registry) = 2
    /\ "authors" \notin DOMAIN registry[1]
    /\ "authors" \in DOMAIN registry[2]
    /\ registry[2].authors = << "bob", "Zed" >>
    /\ missing_authors = << "Zed", "bob" >>

\* C3: for a URL whose host is x.com, check_url returns (True, "skipped
\* (x.com)") and issues no request, whatever the network would answer.
C3_XcomSkipped ==
    (pc = "returned" /\ call.fn = "check_url" /\ Host(call.arg) = "x.com") =>
        /\ ret = << [success |-> TRUE, error |-> << "skipped (x.com)" >>] >>
        /\ requests = << >>

\* C3 witness: check_url("https://x.com/eve") has returned while the network
\* would have timed out.
C3_Witness ==
    /\ pc = "returned"
    /\ call.fn = "check_url"
    /\ call.arg = "https://x.com/eve"
    /\ call.response.kind = "RequestException"

\* What a checked URL or handle yields for a network answer, "HTTP {C}" for
\* every status C >= 400 that has no message of its own.
HttpReason(c) == "HTTP " \o ToString(c)
UrlResult(response) ==
    IF response.kind = "RequestException"
    THEN [success |-> FALSE, error |-> << response.msg >>]
    ELSE IF response.status_code >= 400
    THEN [success |-> FALSE, error |-> << HttpReason(response.status_code) >>]
    ELSE [success |-> TRUE, error |-> << >>]

\* C4: for a URL whose host is not x.com, check_url issues one request and
\* returns by the answer alone; it never reports such a URL as skipped.
C4_OnlyXcomHostSkipped ==
    (pc = "returned" /\ call.fn = "check_url" /\ Host(call.arg) # "x.com") =>
        /\ requests = << call.arg >>
        /\ ret = << UrlResult(call.response) >>

\* C5: check_github_handle returns (False, "GitHub profile not found") on 404,
\* (False, "HTTP {C}") on any other status C >= 400, (False, text) on a
\* transport error and (True, None) on a status below 400; it always returns.
C5_HandleResult ==
    (pc = "returned" /\ call.fn = "check_github_handle") =>
        LET response == call.response
            c == response.status_code
        IN  /\ Len(ret) = 1
            /\ response.kind = "RequestException" =>
                  ret[1] = [success |-> FALSE, error |-> << response.msg >>]
            /\ (response.kind = "status" /\ c = 404) =>
                  ret[1] = [success |-> FALSE, error |-> << "GitHub profile not found" >>]
            /\ (response.kind = "status" /\ c >= 400 /\ c # 404) =>
                  ret[1] = [success |-> FALSE, error |-> << HttpReason(c) >>]
            /\ (response.kind = "status" /\ c < 400) =>
                  ret[1] = [success |-> TRUE, error |-> << >>]
            /\ (response.kind = "status" /\ c = 503) =>
                  ret[1].error = << "HTTP 503" >>

\* C5 witness: a handle check answered with status 400, the lowest error status.
C5_Witness ==
    /\ pc = "returned"
    /\ call.fn = "check_github_handle"
    /\ call.response = [kind |-> "status", status_code |-> 400]
    /\ ret[1].error = << "HTTP 400" >>

\* C6: failed-urls grows only by the URL checks that failed, so a skipped check
\* adds nothing; and a run whose handle checks all pass, whose registry authors
\* are all defined and whose URL checks are all successful or skipped leaves
\* the three lists empty and exits with status 0.
C6_SkippedIsNoFailure ==
    /\ Len(failed_urls) = Len(UrlLines) - Len(SelectSeq(UrlLines,
                                LAMBDA l : l.mark \in {"ok", "skipped"}))
    /\ (/\ pc = "done"
        /\ Len(FailedHandleLines) = 0
        /\ Len(FailedRegistryLines) = 0
        /\ \A k \in 1..Len(UrlLines) : UrlLines[k].mark \in {"ok", "skipped"})
       => /\ exit_code = << 0 >>
          /\ failed_handles = << >>
          /\ failed_urls = << >>
          /\ missing_authors = << >>

\* C6 witness: a run with a skipped website check and a skipped avatar check
\* that exited with status 0.
C6_Witness ==
    /\ pc = "done"
    /\ exit_code = << 0 >>
    /\ \E a, b \in 1..Len(stdout) :
          /\ stdout[a].line = "website" /\ stdout[a].mark = "skipped"
          /\ stdout[b].line = "avatar" /\ stdout[b].mark = "skipped"

\* C7: every run reaches the end of the report with one handle check per key
\* of the authors file, the URL pass made for every author and one registry
\* check per referenced handle, whatever failed on the way.
C7_RunCompletes ==
    <>(/\ pc = "done"
       /\ [k \in 1..Len(HandleLines) |-> HandleLines[k].username] = keys(authors)
       /\ [k \in 1..Len(AuthorLines) |-> AuthorLines[k].username] = keys(authors)
       /\ {RegistryLines[k].author : k \in 1..Len(RegistryLines)} = Referenced)

\* C7 witness: a finished run in which the first of two handle checks hit a
\* transport error, the second was not found, a URL check failed with an HTTP
\* status and a registry author was undefined.
C7_Witness ==
    /\ pc = "done"
    /\ Len(HandleLines) = 2
    /\ HandleLines[1].error = << "Read timed out" >>
    /\ HandleLines[2].error = << "GitHub profile not found" >>
    /\ \E k \in 1..Len(UrlLines) : UrlLines[k].error = << "HTTP 500" >>
    /\ missing_authors # << >>

\* The requests a run owes: one per key of the authors file, then for each
\* author the website and the avatar that are present and were not skipped.
FieldRequest(k, field) ==
    IF /\ field \in DOMAIN authors[k].value
       /\ ~\E n \in 1..Len(SkippedUrlLines) :
             /\ SkippedUrlLines[n].username = authors[k].key
             /\ SkippedUrlLines[n].line = field
    THEN << authors[k].value[field] >>
    ELSE << >>
RECURSIVE UrlRequestsFrom(_)
UrlRequestsFrom(k) ==
    IF k > Len(authors) THEN << >>
    ELSE FieldRequest(k, "website") \o FieldRequest(k, "avatar") \o UrlRequestsFrom(k + 1)
OwedRequests ==
    [k \in 1..Len(authors) |-> "https://github.com/" \o authors[k].key]
    \o UrlRequestsFrom(1)

\* C8: from the end of pass 2 to the exit, the requests issued are exactly one
\* per key of the authors file followed by one per present, unskipped website
\* or avatar; during pass 1 there is one request per handle checked so far.
C8_NoRetries ==
    /\ AfterPass2 => requests = OwedRequests
    /\ pc = "step1" => Len(requests) = i - 1

\* C8 witness: a finished run with a handle check that timed out, a skipped
\* URL, a failed URL and a registry handle that is no key of the authors file.
C8_Witness ==
    /\ pc = "done"
    /\ \E k \in 1..Len(HandleLines) : HandleLines[k].error = << "Read timed out" >>
    /\ Len(SkippedUrlLines) = 1
    /\ Len(FailedUrlLines) = 1
    /\ Referenced \ Keys # {}
    /\ Len(requests) = Len(authors) + 1

\* C9: the printed checks come pass by pass; handle checks and URL passes
\* follow the key order of the authors file; an author's website check comes
\* before its avatar check and both after the author's heading; registry
\* checks ascend lexically; and each failure list follows the checks.
C9_CheckOrder ==
    /\ \A a, b \in 1..Len(stdout) : a < b => Pass(stdout[a]) <= Pass(stdout[b])
    /\ [k \in 1..Len(HandleLines) |-> HandleLines[k].username]
          = SubSeq(keys(authors), 1, Len(HandleLines))
    /\ [k \in 1..Len(AuthorLines) |-> AuthorLines[k].username]
          = SubSeq(keys(authors), 1, Len(AuthorLines))
    /\ \A a, b \in 1..Len(UrlLines) : a < b =>
          \/ KeyIndex(UrlLines[a].username) < KeyIndex(UrlLines[b].username)
          \/ /\ UrlLines[a].username = UrlLines[b].username
             /\ UrlLines[a].line = "website"
             /\ UrlLines[b].line = "avatar"
    /\ \A a, b \in 1..Len(stdout) :
          (stdout[a].line = "urls" /\ stdout[b].line \in {"website", "avatar"}
             /\ stdout[a].username = stdout[b].username) => a < b
    /\ \A k \in 1..(Len(RegistryLines) - 1) :
          StrLess(RegistryLines[k].author, RegistryLines[k + 1].author)
    /\ Len(failed_handles) = Len(FailedHandleLines)
    /\ \A k \in 1..Len(failed_handles) :
          LET u == FailedHandleLines[k].username
          IN  SubSeq(failed_handles[k], 1, Len(u) + 1) = u \o " "
    /\ Len(failed_urls) = Len(FailedUrlLines)
    /\ \A k \in 1..Len(failed_urls) :
          LET head == FailedUrlLines[k].username \o "." \o FailedUrlLines[k].line \o ":"
          IN  SubSeq(failed_urls[k], 1, Len(head)) = head
    /\ missing_authors
          = [k \in 1..Len(FailedRegistryLines) |-> FailedRegistryLines[k].author]

\* C9 witness: a finished run over the keys bob, alice (not their sorted
\* order) in which bob's website and avatar checks both failed.
C9_Witness ==
    /\ pc = "done"
    /\ keys(authors) = << "bob", "alice" >>
    /\ Len(FailedUrlLines) = 2
    /\ FailedUrlLines[1].username = "bob"
    /\ FailedUrlLines[2].username = "bob"
    /\ Len(FailedHandleLines) = 2
    /\ Len(RegistryLines) = 1

\* C10: in every state failed-handles is exactly "{handle} ({reason})" for the
\* handle checks that failed so far, failed-urls exactly "{handle}.{field}:
\* {url} ({reason})" for the website and avatar checks that failed so far, and
\* missing-authors exactly the registry handles found undefined so far.
C10_OneEntryPerFailure ==
    /\ failed_handles =
          [k \in 1..Len(FailedHandleLines) |->
              FailedHandleLines[k].username \o " (" \o FailedHandleLines[k].error[1] \o ")"]
    /\ failed_urls =
          [k \in 1..Len(FailedUrlLines) |->
              FailedUrlLines[k].username \o "." \o FailedUrlLines[k].line \o ": "
                 \o FailedUrlLines[k].url \o " (" \o FailedUrlLines[k].error[1] \o ")"]
    /\ missing_authors
          = [k \in 1..Len(FailedRegistryLines) |-> FailedRegistryLines[k].author]
    /\ \A k \in 1..Len(UrlLines) :
          (/\ UrlLines[k].username = "alice"
           /\ UrlLines[k].line = "avatar"
           /\ UrlLines[k].url = "https://dead.example/x"
           /\ UrlLines[k].error = << "HTTP 404" >>)
          => "alice.avatar: https://dead.example/x (HTTP 404)" \in Range(failed_urls)

\* C10 witness: alice's avatar check answered 404 and is the only failure of
\* the finished run.
C10_Witness ==
    /\ pc = "done"
    /\ failed_urls = << "alice.avatar: https://dead.example/x (HTTP 404)" >>
    /\ failed_handles = << >>
    /\ missing_authors = << >>

====
